---- MODULE Spec2Model ----
(***************************************************************************)
(* Scan lifecycle engine of dragonfly-mainframe: the scans table, the      *)
(* lease query of POST /jobs (get_jobs), verdict ingestion of PUT /package *)
(* (submit_results), POST /package (queue_package) and the in-process      *)
(* JobCache (get_job / refill / submit_result / persist_all_results).      *)
(*                                                                         *)
(* Time is counted in units of one job_timeout (120 s).  A nullable        *)
(* column is the empty tuple (None) or a one-element tuple <<v>>.          *)
(***************************************************************************)
EXTENDS Integers, Sequences, FiniteSets, TLC

VARIABLES
    scans,      \* table scans: (name, version) -> row            (B)
    rules,      \* table rules: set of rule names                 (B)
    now,        \* wall clock
    pc,         \* per request thread: position in its handler
    loc,        \* per request thread: the handler's local variables
    handed,     \* per (name, version): the lease times handed out, in order
    scan_queue, \* JobCache.scan_queue
    pending,    \* JobCache.pending
    results_queue, \* JobCache.results_queue
    refill_lock,   \* JobCache._refill_lock: holder or None
    nreq,       \* number of requests received so far
    nrows,      \* per (name, version): how many rows of scans carry it
    current,    \* app.state.rules: the rule snapshot in use
    upstream,   \* the rule repository: head commit and files
    token,      \* mainframe_settings.dragonfly_github_token
    held        \* pooled connections that lease operations have checked out

vars == <<scans, rules, now, pc, loc, handed, scan_queue, pending, results_queue,
          refill_lock, nreq, nrows, current, upstream, token, held>>

dbvars == <<scans, rules>>
cachevars == <<scan_queue, pending, results_queue, refill_lock>>
rulevars == <<current, upstream, token>>

----------------------------------------------------------------------------
(* Bounds *)

MaxTime == 2
MaxBatch == 2
MaxRequests == 3

(* Program constants *)

\* mainframe_settings.job_timeout, in model time units
JobTimeout == 1
\* JobCache(size=...): capacity of scan_queue and results_queue
CacheSize == 2

----------------------------------------------------------------------------
(* Value domains *)

None == <<>>
Some(v) == <<v>>

\* request threads; the auth subject of a request is its thread's name
Procs == {"w1", "w2"}

\* the thread that serves the loader, the one client that queues packages
Loaders == {"w1"}

\* (name, version) pairs known to the model: two versions of one name
Pkgs == {<<"a", "1">>, <<"a", "2">>}

\* PackageScanResult bodies (name and version are passed separately): one that
\* leaves every optional field at its default and one that sets them all;
\* rules_matched is a list[str]
SuccessVerdicts ==
    {[kind |-> "success", commit |-> "c1", score |-> 0,
      inspector_url |-> None, rules_matched |-> <<>>],
     [kind |-> "success", commit |-> "c1", score |-> 3,
      inspector_url |-> Some("u"), rules_matched |-> <<"r1">>]}

\* a PackageScanResult whose rules_matched lists one name twice
RepeatVerdicts ==
    {[kind |-> "success", commit |-> "c1", score |-> 3,
      inspector_url |-> Some("u"), rules_matched |-> <<"r1", "r1">>]}

\* PackageScanResultFail bodies
FailVerdicts == [kind : {"fail"}, reason : {"e1", "e2"}]

Verdicts == SuccessVerdicts \cup FailVerdicts

\* every body the schema accepts
AnyVerdicts == Verdicts \cup RepeatVerdicts

Idle == [op |-> "none"]

Min(a, b) == IF a < b THEN a ELSE b

Range(f) == {f[i] : i \in DOMAIN f}

\* the names in a list of rule names
Matched(v) == Range(v.rules_matched)

\* faulty variant: no Rule object is created for a matched name without a row
NewRules_None(v, table) == <<>>

\* [Rule(name=n) for n in result.rules_matched if n not in rule_names]: one
\* new Rule object per listed name that has no row in table
NewRules(v, table) ==
    LET Missing(n) == n \notin table
    IN  SelectSeq(v.rules_matched, Missing)

\* two Rule objects with one name violate the unique constraint at commit
HasDuplicates(seq) == \E i, j \in DOMAIN seq : i # j /\ seq[i] = seq[j]


\* a request arrives at an idle thread
Accept(p) ==
    /\ pc[p] = "idle"
    /\ nreq < MaxRequests
    /\ nreq' = nreq + 1

----------------------------------------------------------------------------
(* The scans table *)

\* faulty variant: the new scan starts out PENDING
NewScan_Pending(subject, t) ==
    [status |-> "PENDING", score |-> None, inspector_url |-> None,
     commit_hash |-> None, fail_reason |-> None,
     queued_at |-> t, queued_by |-> subject,
     pending_at |-> Some(t), pending_by |-> Some(subject),
     finished_at |-> None, finished_by |-> None,
     reported_at |-> None, reported_by |-> None,
     rules |-> {}]

\* Scan(name, version, status=QUEUED, queued_by=auth.subject, ...): every
\* other column takes its ORM default
NewScan(subject, t) ==
    [status |-> "QUEUED", score |-> None, inspector_url |-> None,
     commit_hash |-> None, fail_reason |-> None,
     queued_at |-> t, queued_by |-> subject,
     pending_at |-> None, pending_by |-> None,
     finished_at |-> None, finished_by |-> None,
     reported_at |-> None, reported_by |-> None,
     rules |-> {}]

\* faulty variant: a PENDING row is eligible whatever the age of its lease
Eligible_NoTimeout(row, t) == row.status \in {"QUEUED", "PENDING"}

\* faulty variant: FAILED rows are leased again
Eligible_Failed(row, t) ==
    \/ row.status \in {"QUEUED", "FAILED"}
    \/ /\ row.status = "PENDING"
       /\ row.pending_at # None
       /\ row.pending_at[1] < t - JobTimeout

\* faulty variant: a lease never expires
Eligible_QueuedOnly(row, t) == row.status = "QUEUED"

\* WHERE status = 'QUEUED' OR (status = 'PENDING' AND
\*       pending_at < CURRENT_TIMESTAMP - INTERVAL ':job_timeout')
Eligible(row, t) ==
    \/ row.status = "QUEUED"
    \/ /\ row.status = "PENDING"
       /\ row.pending_at # None
       /\ row.pending_at[1] < t - JobTimeout

\* the eligible set E of the catalogue at time t
EligibleSet(t) == {k \in DOMAIN scans : Eligible(scans[k], t)}

\* faulty variant: ORDER BY queued_at alone
OrderKeyLE_QueuedAt(r1, r2) == r1.queued_at <= r2.queued_at

\* ORDER BY pending_at NULLS FIRST, queued_at
OrderKeyLE(r1, r2) ==
    LET p1 == IF r1.pending_at = None THEN -1 ELSE r1.pending_at[1]
        p2 == IF r2.pending_at = None THEN -1 ELSE r2.pending_at[1]
    IN  \/ p1 < p2
        \/ p1 = p2 /\ r1.queued_at <= r2.queued_at

\* rows locked FOR UPDATE by the lease transaction of thread q
LockedBy(q) == IF pc[q] = "gj_locked" THEN Range(loc[q].sel) ELSE {}

LockedByOthers(p) == UNION {LockedBy(q) : q \in Procs \ {p}}

\* faulty variant: the select takes no row locks into account
Lockable_NoLock(p, t) == EligibleSet(t)

\* FOR UPDATE OF scans SKIP LOCKED: rows another transaction holds are skipped
Lockable(p, t) == EligibleSet(t) \ LockedByOthers(p)

\* faulty variant: the LIMIT is dropped
Selections_NoLimit(avail, batch) ==
    LET n == Cardinality(avail)
    IN  {s \in [1..n -> avail] :
            /\ \A i, j \in 1..n : i # j => s[i] # s[j]
            /\ \A i, j \in 1..n : i < j => OrderKeyLE(scans[s[i]], scans[s[j]])}

\* ORDER BY ... LIMIT :batch over the rows in avail: every first-n prefix of
\* an ordering of avail that respects the sort key (ties in any order)
Selections(avail, batch) ==
    LET n == Min(batch, Cardinality(avail))
    IN  {s \in [1..n -> avail] :
            /\ \A i, j \in 1..n : i # j => s[i] # s[j]
            /\ \A i, j \in 1..n : i < j => OrderKeyLE(scans[s[i]], scans[s[j]])
            /\ \A x \in avail \ Range(s) :
                   \A i \in 1..n : OrderKeyLE(scans[s[i]], scans[x])}

----------------------------------------------------------------------------
(* The rule snapshot *)

\* Rules(rules_commit, rules): rules is kept as the set of rule names, the
\* rule bodies are left out
Rules(commit, names) == [rules_commit |-> commit, rules |-> names]

\* a repository without rule files, as the server of the other specifications
\* found it at startup
EmptyRepo == [commit |-> "c0", files |-> {}]

\* states of the rule repository: its head commit and the paths of its
\* archive, each a <<file stem, extension>>
Repos ==
    {[commit |-> "c1", files |-> {<<"r1", "yara">>, <<"readme", "txt">>}],
     [commit |-> "c2", files |-> {<<"r1", "yara">>, <<"r2", "yara">>}]}

\* the states of a repository that is pushed to more often: one more commit,
\* which drops r1
Pushes == Repos \cup {[commit |-> "c3", files |-> {<<"r2", "yara">>}]}

\* what an upstream request can come to: a 2xx response, a response with an
\* error status, or a transport error raised by the HTTP client
Outcomes == {"ok", "status", "network"}

\* mainframe_settings.dragonfly_github_token: the value the test environment
\* sets and a real token
Tokens == {"test", "gh"}

\* fetch_commit_hash: the text of the response, whatever its status
FetchCommitHash(h) ==
    IF h = "network" THEN [ok |-> FALSE]
    ELSE [ok |-> TRUE, value |-> IF h = "ok" THEN upstream.commit ELSE "error body"]

\* fetch_zipfile: raise_for_status, then the archive of the default branch
\* (zipball/ without a ref), whose head is head by now
FetchZipfile(h, head) ==
    IF h = "ok" THEN [ok |-> TRUE, value |-> head.files] ELSE [ok |-> FALSE]

\* parse_zipfile: the stems of the paths that end in .yara
ParseZipfile(files) == {f[1] : f \in {g \in files : g[2] = "yara"}}

\* fetch_rules: the two upstream requests in order, the commit request
\* served at the present head and the archive request at head; requests counts
\* the ones that were sent
FetchRules(hc, hz, head) ==
    LET c == FetchCommitHash(hc)
        z == FetchZipfile(hz, head)
    IN  IF ~c.ok THEN [ok |-> FALSE, requests |-> 1]
        ELSE IF ~z.ok THEN [ok |-> FALSE, requests |-> 2]
        ELSE [ok |-> TRUE, requests |-> 2,
              rules |-> Rules(c.value, ParseZipfile(z.value))]

\* the dependency get_rules: the snapshot in use when the request arrives
GetRules == current

\* update_rules up to the assignment of app.state.rules: fetched is its local
\* variable rules, was the snapshot the request replaced; head is the head of
\* the repository when the archive request is served
UpdateRulesFetch(p, hc, hz, head) ==
    /\ Accept(p)
    /\ LET r == FetchRules(hc, hz, head) IN
           /\ upstream' = head
           /\ IF ~r.ok
              THEN /\ pc' = [pc EXCEPT ![p] = "raise"]
                   /\ loc' = [loc EXCEPT ![p] = [op |-> "update_rules", code |-> 500,
                                                 requests |-> r.requests]]
                   /\ UNCHANGED current
              ELSE /\ current' = r.rules
                   /\ pc' = [pc EXCEPT ![p] = "ur_sync"]
                   /\ loc' = [loc EXCEPT ![p] = [op |-> "update_rules", was |-> current,
                                                 fetched |-> r.rules,
                                                 requests |-> r.requests]]
    /\ UNCHANGED <<held, scans, rules, now, handed, cachevars, nrows, token>>

\* sync_rules: session.add_all(Rule(name) ...) and one commit; an
\* IntegrityError rolls the whole transaction back and is then ignored
SyncInsert(table, names) ==
    IF names \cap table # {} THEN table ELSE table \cup names

\* update_rules, the call of sync_rules: a second fetch_rules, then the rows
UpdateRulesSync(p, hc, hz, head) ==
    /\ pc[p] = "ur_sync"
    /\ LET r == FetchRules(hc, hz, head) IN
           /\ upstream' = head
           /\ IF ~r.ok
              THEN /\ pc' = [pc EXCEPT ![p] = "raise"]
                   /\ loc' = [loc EXCEPT ![p] = [op |-> "update_rules", code |-> 500,
                                                 was |-> loc[p].was,
                                                 fetched |-> loc[p].fetched,
                                                 requests |-> loc[p].requests + r.requests]]
                   /\ UNCHANGED rules
              ELSE /\ rules' = SyncInsert(rules, r.rules.rules)
                   /\ pc' = [pc EXCEPT ![p] = "idle"]
                   /\ loc' = [loc EXCEPT ![p] = Idle]
    /\ UNCHANGED <<held, scans, now, handed, cachevars, nreq, nrows, current, token>>

\* a push to the rule repository
UpstreamPush(repo) ==
    /\ repo # upstream
    /\ upstream' = repo
    /\ UNCHANGED <<held, scans, rules, now, pc, loc, handed, cachevars, nreq, nrows,
                   current, token>>

----------------------------------------------------------------------------
(* POST /jobs : get_jobs *)

\* the rows of the outer SELECT ... FROM updated LEFT JOIN download_urls,
\* after .unique(): the statement has no ORDER BY of its own, so the rows that
\* were selected come back in any order
Returned(sel) ==
    {out \in [DOMAIN sel -> Range(sel)] : \A i, j \in DOMAIN sel : i # j => out[i] # out[j]}

\* the request arrives (state is resolved by Depends(get_rules)) and the CTE
\* "packages" selects, orders, limits and locks the rows
\* ("with session as s, s.begin()" checks a connection out of the pool)
GetJobsQuery(p, batch) ==
    /\ pc[p] = "idle"
    /\ \E sel \in Selections(Lockable(p, now), batch) :
           /\ pc' = [pc EXCEPT ![p] = "gj_locked"]
           /\ loc' = [loc EXCEPT ![p] = [op |-> "get_jobs", sel |-> sel, at |-> now,
                                         state |-> GetRules]]
    /\ held' = held + 1
    /\ UNCHANGED <<scans, rules, now, handed, cachevars, nrows, rulevars>>

\* a get_jobs request arrives
GetJobsSelect(p, batch) ==
    /\ Accept(p)
    /\ GetJobsQuery(p, batch)

\* a worker's standing poll of POST /jobs: the same request, repeated for as
\* long as the worker lives
PollJobs(p, batch) ==
    /\ GetJobsQuery(p, batch)
    /\ UNCHANGED nreq

\* faulty variant: the lease does not stamp pending_at
LeasedRow_NoStamp(row, t, subject) ==
    [row EXCEPT !.status = "PENDING", !.pending_by = Some(subject)]

\* SET status = 'PENDING', pending_at = CURRENT_TIMESTAMP, pending_by = :pending_by
LeasedRow(row, t, subject) ==
    [row EXCEPT !.status = "PENDING",
                !.pending_at = Some(t),
                !.pending_by = Some(subject)]

\* faulty variant: the hash is read from app.state when the response is built
JobResult_Late(k, state) ==
    [name |-> k[1], version |-> k[2], hash |-> current.rules_commit]

\* JobResult(name, version, distributions, hash=state.rules_commit); the
\* download urls are not modelled
JobResult(k, state) ==
    [name |-> k[1], version |-> k[2], hash |-> state.rules_commit]

\* response_body of the request that thread p is serving, when the rows come
\* back in the order out
ResponseBody(p, out) ==
    [i \in DOMAIN out |-> JobResult(out[i], loc[p].state)]

\* the CTE "updated", the commit and the response (one of the bodies
\* ResponseBody(p, out), out \in Returned(sel); the state does not keep it)
\* leaving the with block commits and gives the connection back
GetJobsUpdate(p) ==
    /\ pc[p] = "gj_locked"
    /\ LET got == Range(loc[p].sel) IN
       /\ scans' = [k \in DOMAIN scans |->
                       IF k \in got THEN LeasedRow(scans[k], loc[p].at, p)
                       ELSE scans[k]]
       /\ handed' = [k \in Pkgs |->
                       IF k \in got
                       THEN Append(handed[k], loc[p].at)
                       ELSE handed[k]]
    /\ pc' = [pc EXCEPT ![p] = "idle"]
    /\ loc' = [loc EXCEPT ![p] = Idle]
    /\ held' = held - 1
    /\ UNCHANGED <<rules, now, cachevars, nreq, nrows, rulevars>>

----------------------------------------------------------------------------
(* PUT /package : submit_results *)

\* the unit of work writes a column only when the assigned value differs from
\* the value the session loaded
Assign(cur, loaded, new) == IF new = loaded THEN cur ELSE new

\* faulty variant: the FINISHED check is missing
SubmitCheck_NoConflict(k) == IF k \notin DOMAIN scans THEN 404 ELSE 200

\* the two checks after the lookup: the status code they lead to
SubmitCheck(k) ==
    IF k \notin DOMAIN scans THEN 404
    ELSE IF scans[k].status = "FINISHED" THEN 409
    ELSE 200

\* first transaction (the lookup) and the two checks that follow it
SubmitRead(p, k, v) ==
    /\ Accept(p)
    /\ IF SubmitCheck(k) # 200
       THEN /\ pc' = [pc EXCEPT ![p] = "raise"]
            /\ loc' = [loc EXCEPT ![p] = [op |-> "submit_results", pkg |-> k,
                                          code |-> SubmitCheck(k)]]
       ELSE /\ pc' = [pc EXCEPT ![p] = "sr_write"]
            /\ loc' = [loc EXCEPT ![p] = [op |-> "submit_results", pkg |-> k,
                                          result |-> v, scan |-> scans[k]]]
    /\ UNCHANGED <<held, scans, rules, now, handed, cachevars, nrows, rulevars>>

\* faulty variant: a reason already stored is kept
FailedRow_FirstReason(cur, loaded, v) ==
    [cur EXCEPT !.status = Assign(cur.status, loaded.status, "FAILED"),
                !.fail_reason = IF cur.fail_reason = None THEN Some(v.reason) ELSE @]

\* the row as the failure branch leaves it
FailedRow(cur, loaded, v) ==
    [cur EXCEPT !.status = Assign(cur.status, loaded.status, "FAILED"),
                !.fail_reason = Assign(cur.fail_reason, loaded.fail_reason, Some(v.reason))]

\* faulty variant: the matched rules are not attached to the scan
FinishedRow_NoRules(cur, loaded, v, subject, t) ==
    [cur EXCEPT !.status = "FINISHED",
                !.finished_at = Some(t),
                !.inspector_url = v.inspector_url,
                !.score = Some(v.score),
                !.finished_by = Some(subject),
                !.commit_hash = Some(v.commit)]

\* the row as the success branch leaves it
FinishedRow(cur, loaded, v, subject, t) ==
    [cur EXCEPT !.status = Assign(cur.status, loaded.status, "FINISHED"),
                !.finished_at = Assign(cur.finished_at, loaded.finished_at, Some(t)),
                !.inspector_url = Assign(cur.inspector_url, loaded.inspector_url, v.inspector_url),
                !.score = Assign(cur.score, loaded.score, Some(v.score)),
                !.finished_by = Assign(cur.finished_by, loaded.finished_by, Some(subject)),
                !.commit_hash = Assign(cur.commit_hash, loaded.commit_hash, Some(v.commit)),
                !.rules = cur.rules \cup Matched(v)]

\* second transaction: the update; it waits for a row lock held by a lease
SubmitWrite(p) ==
    /\ pc[p] = "sr_write"
    /\ LET k == loc[p].pkg
           v == loc[p].result
           loaded == loc[p].scan
           attach == IF v.kind = "success" THEN Matched(v) \ loaded.rules ELSE {}
       IN
       /\ k \notin LockedByOthers(p)
       /\ IF v.kind = "fail"
          THEN /\ scans' = [scans EXCEPT ![k] = FailedRow(scans[k], loaded, v)]
               /\ rules' = rules
               /\ pc' = [pc EXCEPT ![p] = "idle"]
               /\ loc' = [loc EXCEPT ![p] = Idle]
          ELSE IF attach \cap scans[k].rules # {} \/ HasDuplicates(NewRules(v, rules))
          THEN \* package_rules primary key or the unique constraint on
               \* Rule.name violated: the transaction rolls back
               /\ pc' = [pc EXCEPT ![p] = "raise"]
               /\ loc' = [loc EXCEPT ![p] = [op |-> "submit_results", pkg |-> k, code |-> 500]]
               /\ UNCHANGED <<scans, rules>>
          ELSE /\ scans' = [scans EXCEPT ![k] = FinishedRow(scans[k], loaded, v, p, now)]
               /\ rules' = rules \cup Range(NewRules(v, rules))
               /\ pc' = [pc EXCEPT ![p] = "idle"]
               /\ loc' = [loc EXCEPT ![p] = Idle]
    /\ UNCHANGED <<held, now, handed, cachevars, nreq, nrows, rulevars>>

\* an HTTPException (or unhandled error) leaves the handler
Raise(p) ==
    /\ pc[p] = "raise"
    /\ pc' = [pc EXCEPT ![p] = "idle"]
    /\ loc' = [loc EXCEPT ![p] = Idle]
    /\ UNCHANGED <<held, scans, rules, now, handed, cachevars, nreq, nrows, rulevars>>

----------------------------------------------------------------------------
(* JobCache *)

\* the cache's copy of a row: the columns the cache reads and writes
CachedScan(k) == [pkg |-> k, status |-> scans[k].status, pending_at |-> scans[k].pending_at]

\* faulty variant: no pending scan ever counts as timed out
TimedOut_Never(s, t) == FALSE

\* pending_for > timeout_limit
TimedOut(s, t) == t - s.pending_at[1] > JobTimeout

\* JobCache.requeue_timeouts: the scans it puts back, reset to QUEUED
RequeuedScans(t) ==
    LET IsOut(s) == TimedOut(s, t)
        out == SelectSeq(pending, IsOut)
    IN  [i \in 1..Len(out) |-> [out[i] EXCEPT !.status = "QUEUED", !.pending_at = None]]

\* JobCache.requeue_timeouts: the scans that stay pending
StillPending(t) ==
    LET IsIn(s) == ~TimedOut(s, t)
    IN  SelectSeq(pending, IsIn)

\* select(Scan).where(status == QUEUED).where((name, version) not in exclude)
\*   .order_by(queued_at).limit(maxsize): the possible result sequences
RefillQuery(exclude) ==
    LET cand == {k \in DOMAIN scans : scans[k].status = "QUEUED" /\ k \notin exclude}
        n == Min(CacheSize, Cardinality(cand))
    IN  {s \in [1..n -> cand] :
            /\ \A i, j \in 1..n : i # j => s[i] # s[j]
            /\ \A i, j \in 1..n : i < j => scans[s[i]].queued_at <= scans[s[j]].queued_at
            /\ \A x \in cand \ Range(s) :
                   \A i \in 1..n : scans[s[i]].queued_at <= scans[x].queued_at}

\* faulty variant: every fetched scan is put, whatever room is left
PutNoWait_NoLimit(q, fetched) ==
    q \o [i \in 1..Len(fetched) |-> CachedScan(fetched[i])]

\* put_nowait until queue.Full
PutNoWait(q, fetched) ==
    LET room == CacheSize - Len(q)
    IN  q \o [i \in 1..Min(room, Len(fetched)) |-> CachedScan(fetched[i])]

\* JobCache.get_job, the part under _refill_lock: refill when scan_queue is
\* empty, then take the head.  requeue_timeouts uses the blocking put, so with
\* more timed-out scans than the queue holds the thread blocks with the lock.
CacheGetJob(p) ==
    /\ Accept(p)
    /\ refill_lock = None
    /\ IF scan_queue # <<>>
       THEN /\ scan_queue' = Tail(scan_queue)
            /\ pc' = [pc EXCEPT ![p] = "cg_got"]
            /\ loc' = [loc EXCEPT ![p] = [op |-> "get_job", scan |-> Head(scan_queue)]]
            /\ UNCHANGED <<pending, refill_lock>>
       ELSE LET requeued == RequeuedScans(now)
                kept == StillPending(now)
            IN
            IF Len(requeued) > CacheSize
            THEN /\ scan_queue' = SubSeq(requeued, 1, CacheSize)
                 /\ refill_lock' = Some(p)
                 /\ pc' = [pc EXCEPT ![p] = "cg_blocked"]
                 /\ loc' = [loc EXCEPT ![p] = [op |-> "get_job"]]
                 /\ UNCHANGED pending
            ELSE \E fetched \in RefillQuery({s.pkg : s \in Range(requeued) \cup Range(kept)}) :
                 LET q == PutNoWait(requeued, fetched) IN
                 /\ pending' = kept
                 /\ UNCHANGED refill_lock
                 /\ IF q = <<>>
                    THEN /\ scan_queue' = q
                         /\ pc' = [pc EXCEPT ![p] = "ret"]
                         /\ loc' = [loc EXCEPT ![p] = [op |-> "get_job", scan |-> None]]
                    ELSE /\ scan_queue' = Tail(q)
                         /\ pc' = [pc EXCEPT ![p] = "cg_got"]
                         /\ loc' = [loc EXCEPT ![p] = [op |-> "get_job", scan |-> Head(q)]]
    /\ UNCHANGED <<held, scans, rules, now, handed, results_queue, nrows, rulevars>>

\* JobCache.get_job after the lock is released: mark the scan and return it
CacheLease(p) ==
    /\ pc[p] = "cg_got"
    /\ LET scan == [loc[p].scan EXCEPT !.status = "PENDING", !.pending_at = Some(now)] IN
       /\ pending' = Append(pending, scan)
       /\ handed' = [handed EXCEPT ![scan.pkg] = Append(@, now)]
       /\ pc' = [pc EXCEPT ![p] = "ret"]
       /\ loc' = [loc EXCEPT ![p] = [op |-> "get_job", scan |-> Some(scan)]]
    /\ UNCHANGED <<held, scans, rules, now, scan_queue, results_queue, refill_lock, nreq, nrows, rulevars>>

\* the caller has its answer
Return(p) ==
    /\ pc[p] = "ret"
    /\ pc' = [pc EXCEPT ![p] = "idle"]
    /\ loc' = [loc EXCEPT ![p] = Idle]
    /\ UNCHANGED <<held, scans, rules, now, handed, cachevars, nreq, nrows, rulevars>>

\* JobCache.persist_all_results, one result applied to the loaded rows:
\* db is <<rows, names of the Rule objects created so far>>
PersistOne(db, r, t) ==
    LET rows == db[1]
        k == r.pkg
        v == r.result
    IN  IF k \notin DOMAIN rows THEN db
        ELSE IF rows[k].status = "FINISHED" THEN db
        ELSE IF v.kind = "fail"
        THEN <<[rows EXCEPT ![k].status = "FAILED",
                            ![k].fail_reason = Some(v.reason)], db[2]>>
        ELSE <<[rows EXCEPT ![k].status = "FINISHED",
                            ![k].finished_at = Some(t),
                            ![k].inspector_url = v.inspector_url,
                            ![k].score = Some(v.score),
                            ![k].commit_hash = Some(v.commit),
                            ![k].rules = @ \cup Matched(v)],
               db[2] \o NewRules(v, rules)>>

RECURSIVE PersistLoop(_, _, _)
PersistLoop(db, results, t) ==
    IF results = <<>> THEN db
    ELSE PersistLoop(PersistOne(db, Head(results), t), Tail(results), t)

\* the flush's UPDATEs wait for rows that a lease transaction holds locked
FlushFree ==
    LET rows == PersistLoop(<<scans, <<>>>>, results_queue, now)[1]
    IN  \A k \in DOMAIN scans :
            rows[k] # scans[k] => \A q \in Procs : k \notin LockedBy(q)

\* JobCache.persist_all_results called on its own: drain results_queue and
\* commit; a failed commit loses the drained results
CachePersistAll(p) ==
    /\ Accept(p)
    /\ FlushFree
    /\ LET db == PersistLoop(<<scans, <<>>>>, results_queue, now) IN
       IF HasDuplicates(db[2])
       THEN /\ pc' = [pc EXCEPT ![p] = "raise"]
            /\ loc' = [loc EXCEPT ![p] = [op |-> "persist_all_results", code |-> 500]]
            /\ UNCHANGED <<scans, rules>>
       ELSE /\ scans' = db[1]
            /\ rules' = rules \cup Range(db[2])
            /\ UNCHANGED <<pc, loc>>
    /\ results_queue' = <<>>
    /\ UNCHANGED <<held, now, handed, scan_queue, pending, refill_lock, nrows, rulevars>>

\* self.pending.remove(scan) for the first pending scan of that name and version
RemovePending(k) ==
    LET first == IF \E i \in DOMAIN pending : pending[i].pkg = k
                 THEN CHOOSE i \in DOMAIN pending :
                          /\ pending[i].pkg = k
                          /\ \A j \in 1..(i - 1) : pending[j].pkg # k
                 ELSE 0
    IN  IF first = 0 THEN pending
        ELSE SubSeq(pending, 1, first - 1) \o SubSeq(pending, first + 1, Len(pending))

\* JobCache.submit_result with the cache enabled
CacheSubmitResult(p, k, v) ==
    /\ Accept(p)
    /\ pending' = RemovePending(k)
    /\ Len(results_queue) = CacheSize => FlushFree
    /\ IF Len(results_queue) = CacheSize
       THEN LET db == PersistLoop(<<scans, <<>>>>, results_queue, now) IN
            IF HasDuplicates(db[2])
            THEN \* commit fails after the queue was drained
                 /\ results_queue' = <<>>
                 /\ pc' = [pc EXCEPT ![p] = "raise"]
                 /\ loc' = [loc EXCEPT ![p] = [op |-> "submit_result", pkg |-> k, code |-> 500]]
                 /\ UNCHANGED <<scans, rules>>
            ELSE /\ scans' = db[1]
                 /\ rules' = rules \cup Range(db[2])
                 /\ results_queue' = <<[pkg |-> k, result |-> v]>>
                 /\ UNCHANGED <<pc, loc>>
       ELSE /\ results_queue' = Append(results_queue, [pkg |-> k, result |-> v])
            /\ UNCHANGED <<scans, rules, pc, loc>>
    /\ UNCHANGED <<held, now, handed, scan_queue, refill_lock, nrows, rulevars>>

----------------------------------------------------------------------------
(* JobCache with the cache disabled (size <= 1) *)

\* fetch_job's WHERE clause: QUEUED, or PENDING with pending_at older than
\* job_timeout
FetchEligible(row, t) ==
    \/ row.status = "QUEUED"
    \/ /\ row.status = "PENDING"
       /\ row.pending_at # None
       /\ row.pending_at[1] < t - JobTimeout

\* the row as fetch_job leaves it: scan.status and scan.pending_at are set
FetchedRow(row, t) ==
    [row EXCEPT !.status = "PENDING", !.pending_at = Some(t)]

\* JobCache.get_job with the cache disabled: fetch_job.  The query locks its
\* rows FOR UPDATE without SKIP LOCKED, so it waits for rows that a lease
\* transaction holds; session.scalar takes the first row of the ordering.
\* With a row the commit ends the transaction and returns the connection to
\* the pool; without one the session is dropped as it is, and its connection
\* goes back to the pool only if the session object is collected at once.
FetchJob(p, collected) ==
    /\ Accept(p)
    /\ LET found == {k \in DOMAIN scans : FetchEligible(scans[k], now)} IN
       /\ found \cap LockedByOthers(p) = {}
       /\ \E sel \in Selections(found, 1) :
              IF sel = <<>>
              THEN /\ held' = IF collected THEN held ELSE held + 1
                   /\ loc' = [loc EXCEPT ![p] = [op |-> "get_job", scan |-> None]]
                   /\ UNCHANGED <<scans, handed>>
              ELSE /\ scans' = [scans EXCEPT ![sel[1]] = FetchedRow(@, now)]
                   /\ handed' = [handed EXCEPT ![sel[1]] = Append(@, now)]
                   /\ loc' = [loc EXCEPT ![p] =
                                 [op |-> "get_job",
                                  scan |-> Some([pkg |-> sel[1], status |-> "PENDING",
                                                 pending_at |-> Some(now)])]]
                   /\ UNCHANGED held
    /\ pc' = [pc EXCEPT ![p] = "ret"]
    /\ UNCHANGED <<rules, now, cachevars, nrows, rulevars>>

\* JobCache.submit_result with the cache disabled: the result is put into
\* results_queue and persist_all_results drains it at once
SubmitResultDisabled(p, k, v) ==
    /\ Accept(p)
    /\ LET batch == <<[pkg |-> k, result |-> v]>>
           db == PersistLoop(<<scans, <<>>>>, results_queue \o batch, now)
       IN  /\ \A x \in DOMAIN scans :
                  db[1][x] # scans[x] => \A q \in Procs : x \notin LockedBy(q)
           /\ IF HasDuplicates(db[2])
              THEN /\ pc' = [pc EXCEPT ![p] = "raise"]
                   /\ loc' = [loc EXCEPT ![p] = [op |-> "submit_result", pkg |-> k, code |-> 500]]
                   /\ UNCHANGED <<scans, rules>>
              ELSE /\ scans' = db[1]
                   /\ rules' = rules \cup Range(db[2])
                   /\ UNCHANGED <<pc, loc>>
    /\ results_queue' = <<>>
    /\ UNCHANGED <<held, now, handed, scan_queue, pending, refill_lock, nrows, rulevars>>

----------------------------------------------------------------------------
(* POST /package : queue_package *)

\* faulty variant: the table has no unique constraint
UniqueViolation_None(k) == FALSE

\* UniqueConstraint("name", "version"): an INSERT of k is refused
UniqueViolation(k) == nrows[k] > 0

\* session.add(Scan(...)) for every key in new, flushed at commit
InsertScans(new, subject, t) ==
    /\ scans' = [k \in new |-> NewScan(subject, t)] @@ scans
    /\ nrows' = [k \in Pkgs |-> IF k \in new THEN nrows[k] + 1 ELSE nrows[k]]

QueuePackage(p, k, found) ==
    /\ Accept(p)
    /\ IF ~found
       THEN /\ pc' = [pc EXCEPT ![p] = "raise"]
            /\ loc' = [loc EXCEPT ![p] = [op |-> "queue_package", pkg |-> k, code |-> 404]]
            /\ UNCHANGED <<scans, nrows>>
       ELSE IF UniqueViolation(k)
       THEN /\ pc' = [pc EXCEPT ![p] = "raise"]
            /\ loc' = [loc EXCEPT ![p] = [op |-> "queue_package", pkg |-> k, code |-> 409]]
            /\ UNCHANGED <<scans, nrows>>
       ELSE /\ InsertScans({k}, p, now)
            /\ UNCHANGED <<pc, loc>>
    /\ UNCHANGED <<held, rules, now, handed, cachevars, rulevars>>

\* the answers of the upstream index to get_package_metadata(name, version):
\* the (title, version) of the release that the pair names, or None for
\* PackageNotFoundError; the index compares names and versions in normalised
\* form and answers with the spelling the release is registered under, and a
\* registered spelling names itself
Indexes ==
    {ix \in [Pkgs -> Pkgs \cup {None}] : \A k \in Pkgs : ix[k] # None => ix[ix[k]] = ix[k]}

\* _deduplicate_packages: the requested pairs, as a set, without those that
\* have a row
DeduplicatePackages(asked) == asked \ DOMAIN scans

\* _get_packages_metadata: the metadata of the pairs the index knows
GetPackagesMetadata(check, ix) == [k \in {x \in check : ix[x] # None} |-> ix[k]]

\* Scan(name=package_metadata.title, version=package_metadata.releases[0].version)
ScanKey(metadata, k) == metadata[k]

\* POST /batch/package, first part: _deduplicate_packages and the upstream
\* lookups
BatchDedup(p, asked, ix) ==
    /\ Accept(p)
    /\ pc' = [pc EXCEPT ![p] = "bq_insert"]
    /\ loc' = [loc EXCEPT ![p] =
                  [op |-> "batch_queue_package",
                   metadata |-> GetPackagesMetadata(DeduplicatePackages(asked), ix)]]
    /\ UNCHANGED <<held, scans, rules, now, handed, cachevars, nrows, rulevars>>

\* POST /batch/package, the commit: all inserts or, on an IntegrityError that
\* the handler does not catch, none
BatchInsert(p) ==
    /\ pc[p] = "bq_insert"
    /\ LET metadata == loc[p].metadata
           new == {ScanKey(metadata, k) : k \in DOMAIN metadata}
       IN  IF \/ \E k \in new : UniqueViolation(k)
              \/ \E j, k \in DOMAIN metadata :
                     j # k /\ ScanKey(metadata, j) = ScanKey(metadata, k)
           THEN /\ pc' = [pc EXCEPT ![p] = "raise"]
                /\ loc' = [loc EXCEPT ![p] = [op |-> "batch_queue_package", code |-> 500]]
                /\ UNCHANGED <<scans, nrows>>
           ELSE /\ InsertScans(new, p, now)
                /\ pc' = [pc EXCEPT ![p] = "idle"]
                /\ loc' = [loc EXCEPT ![p] = Idle]
    /\ UNCHANGED <<held, rules, now, handed, cachevars, nreq, rulevars>>

----------------------------------------------------------------------------
(* POST /report : report_package *)

\* ReportPackageBody without name and version
ReportBodies ==
    [inspector_url : {None, Some("v")},
     additional_information : {None, Some("i")},
     use_email : BOOLEAN]

\* DatabaseStorage.lookup_packages(name): the keys of the scans of that name,
\* most recently queued first
LookupPackages(name) ==
    LET match == {k \in DOMAIN scans : k[1] = name} IN
    CHOOSE s \in [1..Cardinality(match) -> match] :
        /\ \A i, j \in DOMAIN s : i # j => s[i] # s[j]
        /\ \A i, j \in DOMAIN s :
               i < j => scans[s[i]].queued_at >= scans[s[j]].queued_at

\* get_reported_version: the first scan with a reported_at, as a one-element
\* tuple, or None
GetReportedVersion(found) ==
    LET hits == SelectSeq(found, LAMBDA k : scans[k].reported_at # None)
    IN  IF hits = <<>> THEN None ELSE Some(Head(hits))

\* faulty variant: the requested version is looked for before the reported one
ValidatePackage_VersionFirst(k, found) ==
    IF k \notin Range(found) THEN [code |-> 404]
    ELSE IF GetReportedVersion(found) # None
    THEN [code |-> 409, reported_version |-> GetReportedVersion(found)[1][2]]
    ELSE [code |-> 200]

\* validate_package and the HTTPException its exceptions are turned into
ValidatePackage(k, found) ==
    IF found = <<>> THEN [code |-> 404]
    ELSE IF GetReportedVersion(found) # None
    THEN [code |-> 409, reported_version |-> GetReportedVersion(found)[1][2]]
    ELSE IF k \notin Range(found) THEN [code |-> 404]
    ELSE [code |-> 200]

\* _validate_inspector_url, _validate_additional_information, _validate_pypi
\* for the validated scan, in the order report_package calls them
ValidateRequest(k, body, on_pypi) ==
    IF body.inspector_url = None /\ scans[k].inspector_url = None
    THEN [code |-> 400]
    ELSE IF /\ body.additional_information = None
            /\ (scans[k].rules = {} \/ ~body.use_email)
    THEN [code |-> 400]
    ELSE IF ~on_pypi THEN [code |-> 404]
    ELSE [code |-> 200]

\* report_package up to the POST: one read of the catalogue, then the checks
ReportValidate(p, k, body, on_pypi) ==
    /\ Accept(p)
    /\ LET first == ValidatePackage(k, LookupPackages(k[1]))
           outcome == IF first.code # 200 THEN first
                      ELSE ValidateRequest(k, body, on_pypi)
       IN  IF outcome.code # 200
           THEN /\ pc' = [pc EXCEPT ![p] = "raise"]
                /\ loc' = [loc EXCEPT ![p] = [op |-> "report_package", pkg |-> k] @@ outcome]
           ELSE /\ pc' = [pc EXCEPT ![p] = "rp_post"]
                /\ loc' = [loc EXCEPT ![p] = [op |-> "report_package", pkg |-> k]]
    /\ UNCHANGED <<held, scans, rules, now, handed, cachevars, nrows, rulevars>>

\* httpx_client.post of the EmailReport or ObservationReport
ReportPost(p) ==
    /\ pc[p] = "rp_post"
    /\ pc' = [pc EXCEPT ![p] = "rp_mark"]
    /\ UNCHANGED <<held, scans, rules, now, loc, handed, cachevars, nreq, nrows, rulevars>>

\* faulty variant: the scan belongs to the session that commits
MarkReported_Attached(rows, k, subject, t) ==
    [rows EXCEPT ![k].reported_by = Some(subject), ![k].reported_at = Some(t)]

\* DatabaseStorage.mark_reported: the scan was loaded by lookup_packages in a
\* session that is closed by now, and it is never added to the new session;
\* the two assignments change the detached object and the commit writes nothing
MarkReported(rows, k, subject, t) == rows

\* database.mark_reported(scan=scan, subject=auth.subject) and the response
ReportMark(p) ==
    /\ pc[p] = "rp_mark"
    /\ scans' = MarkReported(scans, loc[p].pkg, p, now)
    /\ pc' = [pc EXCEPT ![p] = "idle"]
    /\ loc' = [loc EXCEPT ![p] = Idle]
    /\ UNCHANGED <<held, rules, now, handed, cachevars, nreq, nrows, rulevars>>

----------------------------------------------------------------------------
(* GET /stats : get_stats *)

\* timedelta(hours=24), in units of the job timeout of two minutes
StatsWindow == 720

\* .where(Scan.queued_at > now - timedelta(hours=24))
Recent(t) == {k \in DOMAIN scans : scans[k].queued_at > t - StatsWindow}

\* _get_package_ingest: count(*) of the recent scans
GetPackageIngest(t) == Cardinality(Recent(t))

\* the rows _get_average_scan_time averages over
Timed(t) ==
    {k \in Recent(t) : scans[k].pending_at # None /\ scans[k].finished_at # None}

\* the sum of finished_at - pending_at over the scans in S
RECURSIVE ScanTime(_)
ScanTime(S) ==
    IF S = {} THEN 0
    ELSE LET k == CHOOSE x \in S : TRUE
         IN  (scans[k].finished_at[1] - scans[k].pending_at[1]) + ScanTime(S \ {k})

\* select avg(finished_at - pending_at): NULL over no row, which one() hands
\* back as None; the mean is kept as <<sum, count>>
AverageScanTime(t) ==
    IF Timed(t) = {} THEN None
    ELSE Some(<<ScanTime(Timed(t)), Cardinality(Timed(t))>>)

\* _get_failed_packages: count(*) of the recent scans with status FAILED
GetFailedPackages(t) == Cardinality({k \in Recent(t) : scans[k].status = "FAILED"})

\* get_stats: the three queries in order; _get_average_scan_time calls
\* total_seconds() on what one() returned, an AttributeError on None
GetStats(p) ==
    /\ Accept(p)
    /\ IF AverageScanTime(now) = None
       THEN /\ pc' = [pc EXCEPT ![p] = "raise"]
            /\ loc' = [loc EXCEPT ![p] = [op |-> "get_stats", code |-> 500]]
       ELSE /\ pc' = [pc EXCEPT ![p] = "ret"]
            /\ loc' = [loc EXCEPT ![p] =
                          [op |-> "get_stats",
                           ingested |-> GetPackageIngest(now),
                           average_scan_time |-> AverageScanTime(now)[1],
                           failed |-> GetFailedPackages(now)]]
    /\ UNCHANGED <<held, scans, rules, now, handed, cachevars, nrows, rulevars>>

----------------------------------------------------------------------------
(* The clock *)

Tick ==
    /\ now < MaxTime
    /\ now' = now + 1
    /\ UNCHANGED <<held, scans, rules, pc, loc, handed, cachevars, nreq, nrows, rulevars>>

----------------------------------------------------------------------------

Init ==
    /\ scans = <<>>
    /\ rules = {}
    /\ now = 0
    /\ pc = [p \in Procs |-> "idle"]
    /\ loc = [p \in Procs |-> Idle]
    /\ handed = [k \in Pkgs |-> <<>>]
    /\ scan_queue = <<>>
    /\ pending = <<>>
    /\ results_queue = <<>>
    /\ refill_lock = None
    /\ nreq = 0
    /\ held = 0
    /\ upstream = EmptyRepo
    /\ current = Rules(EmptyRepo.commit, {})
    /\ token = "gh"
    /\ nrows = [k \in Pkgs |-> 0]

\* the server as deployed: the endpoints work on the database directly
Next ==
    \/ \E p \in Loaders, k \in Pkgs, found \in BOOLEAN : QueuePackage(p, k, found)
    \/ \E p \in Procs, batch \in 0..MaxBatch : GetJobsSelect(p, batch)
    \/ \E p \in Procs : GetJobsUpdate(p)
    \/ \E p \in Procs, k \in Pkgs, v \in Verdicts : SubmitRead(p, k, v)
    \/ \E p \in Procs : SubmitWrite(p)
    \/ \E p \in Procs : Raise(p)
    \/ Tick

Spec == Init /\ [][Next]_vars

\* the JobCache in front of the database
NextCache ==
    \/ \E p \in Loaders, k \in Pkgs, found \in BOOLEAN : QueuePackage(p, k, found)
    \/ \E p \in Procs : CacheGetJob(p)
    \/ \E p \in Procs : CacheLease(p)
    \/ \E p \in Procs, k \in Pkgs, v \in Verdicts : CacheSubmitResult(p, k, v)
    \/ \E p \in Procs : CachePersistAll(p)
    \/ \E p \in Procs : Return(p)
    \/ \E p \in Procs : Raise(p)
    \/ Tick

SpecCache == Init /\ [][NextCache]_vars

\* the JobCache's results buffer over scans added in bulk
NextFlush ==
    \/ \E p \in Procs, asked \in SUBSET Pkgs, ix \in Indexes : BatchDedup(p, asked, ix)
    \/ \E p \in Procs : BatchInsert(p)
    \/ \E p \in Procs, k \in Pkgs, v \in Verdicts : CacheSubmitResult(p, k, v)
    \/ \E p \in Procs : CachePersistAll(p)
    \/ \E p \in Procs : Raise(p)
    \/ Tick

SpecFlush == Init /\ [][NextFlush]_vars

\* the JobCache handing out scans that were queued beforehand
InitRefill ==
    /\ \E S \in SUBSET Pkgs : scans = [k \in S |-> NewScan("w1", 0)]
    /\ nrows = [k \in Pkgs |-> IF k \in DOMAIN scans THEN 1 ELSE 0]
    /\ rules = {}
    /\ now = 0
    /\ pc = [p \in Procs |-> "idle"]
    /\ loc = [p \in Procs |-> Idle]
    /\ handed = [k \in Pkgs |-> <<>>]
    /\ scan_queue = <<>>
    /\ pending = <<>>
    /\ results_queue = <<>>
    /\ refill_lock = None
    /\ nreq = 0
    /\ held = 0
    /\ upstream = EmptyRepo
    /\ current = Rules(EmptyRepo.commit, {})
    /\ token = "gh"

NextRefill ==
    \/ \E p \in Procs : CacheGetJob(p)
    \/ \E p \in Procs : CacheLease(p)
    \/ \E p \in Procs, k \in Pkgs, v \in Verdicts : CacheSubmitResult(p, k, v)
    \/ \E p \in Procs : Return(p)
    \/ \E p \in Procs : Raise(p)
    \/ Tick

SpecRefill == InitRefill /\ [][NextRefill]_vars

\* verdict ingestion on both paths over scans that were queued beforehand,
\* with every body the schema accepts, at one instant
NextIngest ==
    \/ \E p \in Procs, k \in Pkgs, v \in AnyVerdicts : SubmitRead(p, k, v)
    \/ \E p \in Procs : SubmitWrite(p)
    \/ \E p \in Procs, k \in Pkgs, v \in AnyVerdicts : CacheSubmitResult(p, k, v)
    \/ \E p \in Procs : CachePersistAll(p)
    \/ \E p \in Procs : Raise(p)

SpecIngest == InitRefill /\ [][NextIngest]_vars

\* JobCache(size = 1) beside the lease endpoint, over scans that were queued
\* beforehand
NextDirect ==
    \/ \E p \in Procs, collected \in BOOLEAN : FetchJob(p, collected)
    \/ \E p \in Procs, k \in Pkgs, v \in AnyVerdicts : SubmitResultDisabled(p, k, v)
    \/ \E p \in Procs, batch \in 0..MaxBatch : GetJobsSelect(p, batch)
    \/ \E p \in Procs : GetJobsUpdate(p)
    \/ \E p \in Procs : Return(p)
    \/ \E p \in Procs : Raise(p)
    \/ Tick

SpecDirect == InitRefill /\ [][NextDirect]_vars

\* a catalogue with one scan more than the cache holds
Backlog == Pkgs \cup {<<"b", "1">>}

\* JobCache(size = CacheSize) over a queued backlog, after its first get_job
\* returned: the refill fetched CacheSize scans, the first of them is handed
\* out and pending, the others wait in scan_queue
InitBacklog ==
    /\ scans = [k \in Backlog |-> NewScan("w1", 0)]
    /\ nrows = [k \in Backlog |-> 1]
    /\ rules = {}
    /\ now = 0
    /\ pc = [p \in Procs |-> "idle"]
    /\ loc = [p \in Procs |-> Idle]
    /\ \E fetched \in RefillQuery({}) :
           LET q == PutNoWait(<<>>, fetched) IN
           /\ scan_queue = Tail(q)
           /\ pending = <<[Head(q) EXCEPT !.status = "PENDING", !.pending_at = Some(0)]>>
           /\ handed = [k \in Backlog |-> IF k = Head(q).pkg THEN <<0>> ELSE <<>>]
    /\ results_queue = <<>>
    /\ refill_lock = None
    /\ nreq = 0
    /\ held = 0
    /\ upstream = EmptyRepo
    /\ current = Rules(EmptyRepo.commit, {})
    /\ token = "gh"

SpecBacklog == InitBacklog /\ [][NextRefill]_vars

\* the cache with its scheduling: a call that has started runs to its end and
\* the clock advances; when the next request arrives is up to the workers
SpecBuffer ==
    /\ InitRefill
    /\ [][NextRefill]_vars
    /\ \A p \in Procs : WF_vars(CacheLease(p))
    /\ \A p \in Procs : WF_vars(Return(p))
    /\ \A p \in Procs : WF_vars(Raise(p))
    /\ WF_vars(Tick)

\* the server after lifespan: the snapshot of the repository is in use and
\* its rule names have rows
InitRules ==
    /\ upstream \in Repos
    /\ token \in Tokens
    /\ current = Rules(upstream.commit, ParseZipfile(upstream.files))
    /\ rules = ParseZipfile(upstream.files)
    /\ scans = <<>>
    /\ nrows = [k \in Pkgs |-> 0]
    /\ now = 0
    /\ pc = [p \in Procs |-> "idle"]
    /\ loc = [p \in Procs |-> Idle]
    /\ handed = [k \in Pkgs |-> <<>>]
    /\ scan_queue = <<>>
    /\ pending = <<>>
    /\ results_queue = <<>>
    /\ refill_lock = None
    /\ nreq = 0
    /\ held = 0

\* the rule snapshot, its refresh and the endpoint that stamps jobs with it;
\* pushes arrive between the fetches, not inside one
NextRules ==
    \/ \E p \in Procs, hc, hz \in Outcomes : UpdateRulesFetch(p, hc, hz, upstream)
    \/ \E p \in Procs, hc, hz \in Outcomes : UpdateRulesSync(p, hc, hz, upstream)
    \/ \E repo \in Repos : UpstreamPush(repo)
    \/ \E p \in Loaders, k \in Pkgs, found \in BOOLEAN : QueuePackage(p, k, found)
    \/ \E p \in Procs, batch \in 0..MaxBatch : GetJobsSelect(p, batch)
    \/ \E p \in Procs : GetJobsUpdate(p)
    \/ \E p \in Procs : Raise(p)

SpecRules == InitRules /\ [][NextRules]_vars

\* the thread that serves the deployment hook of the rule repository, the one
\* client that asks for a refresh
Deployers == {"w1"}

\* the refresh beside a repository that is pushed to at any moment, also
\* between the two requests of one fetch_rules call
NextFetch ==
    \/ \E p \in Deployers, hc, hz \in Outcomes, head \in Pushes : UpdateRulesFetch(p, hc, hz, head)
    \/ \E p \in Deployers, hc, hz \in Outcomes, head \in Pushes : UpdateRulesSync(p, hc, hz, head)
    \/ \E repo \in Pushes : UpstreamPush(repo)
    \/ \E p \in Deployers : Raise(p)

SpecFetch == InitRules /\ [][NextFetch]_vars

\* the statistics endpoint beside dispatch and verdict submission, over scans
\* that were queued beforehand
NextStats ==
    \/ Next
    \/ \E p \in Procs : GetStats(p)
    \/ \E p \in Procs : Return(p)

SpecStats == InitRefill /\ [][NextStats]_vars

\* the two ways of adding scans, open to every client
NextQueue ==
    \/ \E p \in Procs, k \in Pkgs, found \in BOOLEAN : QueuePackage(p, k, found)
    \/ \E p \in Procs, asked \in SUBSET Pkgs, ix \in Indexes : BatchDedup(p, asked, ix)
    \/ \E p \in Procs : BatchInsert(p)
    \/ \E p \in Procs : Raise(p)
    \/ Tick

SpecQueue == Init /\ [][NextQueue]_vars

\* rows as report_package may find them: queued, finished with a matched rule,
\* and finished and marked reported
ReportRows ==
    LET done == [NewScan("w1", 0) EXCEPT !.status = "FINISHED",
                     !.pending_at = Some(0), !.pending_by = Some("w2"),
                     !.finished_at = Some(0), !.finished_by = Some("w2"),
                     !.score = Some(3), !.inspector_url = Some("u"),
                     !.commit_hash = Some("c1"), !.rules = {"r1"}]
    IN  {NewScan("w1", 0), done,
         [done EXCEPT !.reported_at = Some(0), !.reported_by = Some("w2")]}

\* the report service over a catalogue filled beforehand, in which at most one
\* version of a name is marked reported
InitReport ==
    /\ \E S \in SUBSET Pkgs : scans \in [S -> ReportRows]
    /\ \A j, k \in DOMAIN scans :
           (j # k /\ j[1] = k[1]) =>
               (scans[j].reported_at = None \/ scans[k].reported_at = None)
    /\ rules = UNION {scans[k].rules : k \in DOMAIN scans}
    /\ nrows = [k \in Pkgs |-> IF k \in DOMAIN scans THEN 1 ELSE 0]
    /\ now = 0
    /\ pc = [p \in Procs |-> "idle"]
    /\ loc = [p \in Procs |-> Idle]
    /\ handed = [k \in Pkgs |-> <<>>]
    /\ scan_queue = <<>>
    /\ pending = <<>>
    /\ results_queue = <<>>
    /\ refill_lock = None
    /\ nreq = 0
    /\ held = 0
    /\ upstream = EmptyRepo
    /\ current = Rules(EmptyRepo.commit, {})
    /\ token = "gh"

NextReport ==
    \/ \E p \in Procs, k \in Pkgs, body \in ReportBodies, on_pypi \in BOOLEAN :
           ReportValidate(p, k, body, on_pypi)
    \/ \E p \in Procs : ReportPost(p)
    \/ \E p \in Procs : ReportMark(p)
    \/ \E p \in Procs : Raise(p)

SpecReport == InitReport /\ [][NextReport]_vars

\* dispatch with workers that keep polling for at least one job: finitely
\* many scans are queued, every lease transaction completes, the clock advances
NextLive ==
    \/ \E p \in Loaders, k \in Pkgs, found \in BOOLEAN : QueuePackage(p, k, found)
    \/ \E p \in Procs, batch \in 1..MaxBatch : PollJobs(p, batch)
    \/ \E p \in Procs : GetJobsUpdate(p)
    \/ \E p \in Procs : Raise(p)
    \/ Tick

SpecLive ==
    /\ Init
    /\ [][NextLive]_vars
    /\ WF_vars(\E p \in Procs, batch \in 1..MaxBatch : PollJobs(p, batch))
    /\ \A p \in Procs : WF_vars(GetJobsUpdate(p))
    /\ WF_vars(Tick)

\* dispatch and verdict ingestion on both paths
NextAll == Next \/ NextCache

SpecAll == Init /\ [][NextAll]_vars

TypeOK ==
    /\ DOMAIN scans \subseteq Pkgs
    /\ now \in 0..MaxTime

----------------------------------------------------------------------------
(* Properties *)

Leasing(p) == pc[p] = "gj_locked"

\* thread p commits its lease in this step
LeaseCommits(p) == pc[p] = "gj_locked" /\ pc'[p] = "idle"

\* C1: for any interleaving of concurrent get_jobs calls no (name, version) is
\* handed out twice within one lease window: two lease transactions never hold
\* the same row, and any two leases of one scan lie more than job_timeout apart.
C1_NoDuplicateLease ==
    /\ \A p, q \in Procs : p # q => LockedBy(p) \cap LockedBy(q) = {}
    /\ \A k \in Pkgs : \A i, j \in DOMAIN handed[k] :
           i < j => handed[k][j] - handed[k][i] > JobTimeout

\* two lease transactions are in flight at once: w1 holds the lock of the one
\* eligible row and w2, skipping it, got nothing
C1_Witness ==
    /\ Leasing("w1") /\ Len(loc["w1"].sel) = 1
    /\ Leasing("w2") /\ loc["w2"].sel = <<>>
    /\ \A k \in Range(loc["w1"].sel) : Eligible(scans[k], now)

\* C2: with the cache enabled, consecutive hand-outs of one scan by
\* JobCache.get_job are more than job_timeout apart (exactly-once assignment
\* per lease window).
C2_CacheExactlyOnce ==
    \A k \in Pkgs : \A i \in 1..(Len(handed[k]) - 1) :
        handed[k][i + 1] - handed[k][i] > JobTimeout

\* C3: lease expiry recovery.  A PENDING scan is leased again only when its
\* lease is older than job_timeout; a get_jobs call that has room left takes
\* every free expired scan; the re-lease stores the new lease time and the new
\* leaseholder.
C3_LeaseExpiryRecovery ==
    [][\A p \in Procs :
          /\ \A b \in 0..MaxBatch :
                 GetJobsSelect(p, b) =>
                     \A k \in DOMAIN scans :
                         /\ (scans[k].status = "PENDING" /\ k \in Range(loc'[p].sel))
                                => now - scans[k].pending_at[1] > JobTimeout
                         /\ ( /\ scans[k].status = "PENDING"
                              /\ now - scans[k].pending_at[1] > JobTimeout
                              /\ \A q \in Procs : k \notin LockedBy(q) )
                                => (k \in Range(loc'[p].sel) \/ Len(loc'[p].sel) = b)
          /\ LeaseCommits(p) =>
                 \A k \in Range(loc[p].sel) :
                     scans[k].status = "PENDING" =>
                         /\ scans'[k].status = "PENDING"
                         /\ scans'[k].pending_at = Some(loc[p].at)
                         /\ scans'[k].pending_at # scans[k].pending_at
                         /\ scans'[k].pending_by = Some(p)
      ]_vars

\* a scan leased at time 0 by w1 was leased again, by w2, after the timeout
C3_Witness ==
    \E k \in DOMAIN scans :
        /\ Len(handed[k]) = 2
        /\ scans[k].status = "PENDING"
        /\ scans[k].pending_at = Some(handed[k][2])
        /\ scans[k].pending_by = Some("w2")

NoOtherLeaser(p) == \A q \in Procs \ {p} : ~Leasing(q)

C5_LeaseStored ==
    /\ [](\A k \in DOMAIN scans : scans[k].status = "PENDING" => scans[k].pending_at # None)
    /\ [][\A p \in Procs :
             LeaseCommits(p) =>
                 \A k \in Range(loc[p].sel) :
                     /\ scans'[k].status = "PENDING"
                     /\ scans'[k].pending_at = Some(loc[p].at)
                     /\ scans'[k].pending_by = Some(p)
         ]_vars

\* a batch of two scans was leased to w2 at time 1
C5_Witness ==
    \A k \in Pkgs :
        /\ k \in DOMAIN scans
        /\ scans[k].status = "PENDING"
        /\ scans[k].pending_at = Some(1)
        /\ scans[k].pending_by = Some("w2")

\* thread p takes a step of a dispatch operation (get_jobs or JobCache.get_job)
DispatchStepOf(p) ==
    /\ pc'[p] # pc[p]
    /\ \/ pc[p] \in {"gj_locked", "cg_got"}
       \/ pc'[p] \in {"gj_locked", "cg_got", "cg_blocked", "ret"}

DispatchStep == \E p \in Procs : DispatchStepOf(p)

C7_FinishedComplete ==
    \A k \in DOMAIN scans :
        scans[k].status = "FINISHED" =>
            /\ scans[k].score # None
            /\ scans[k].inspector_url # None
            /\ scans[k].commit_hash # None
            /\ scans[k].finished_at # None
            /\ scans[k].finished_by # None

\* C8: a FINISHED or FAILED scan has a finished_at, and a FAILED scan has a
\* fail_reason (a failure verdict stamps status, finished_at and fail_reason).
C8_FailureStamped ==
    \A k \in DOMAIN scans :
        /\ scans[k].status \in {"FINISHED", "FAILED"} => scans[k].finished_at # None
        /\ scans[k].status = "FAILED" => scans[k].fail_reason # None

\* C9: at most one success verdict is applied: once a scan is FINISHED its
\* status, score, inspector_url, commit_hash, finished_by and rules never change.
C9_FinishedImmutable ==
    [][\A k \in DOMAIN scans :
          scans[k].status = "FINISHED" =>
              /\ scans'[k].status = "FINISHED"
              /\ scans'[k].score = scans[k].score
              /\ scans'[k].inspector_url = scans[k].inspector_url
              /\ scans'[k].commit_hash = scans[k].commit_hash
              /\ scans'[k].finished_by = scans[k].finished_by
              /\ scans'[k].rules = scans[k].rules
      ]_vars

\* thread p starts a submit_results call in this step
SubmitStarts(p) ==
    /\ pc[p] = "idle"
    /\ pc'[p] # "idle"
    /\ loc'[p].op = "submit_results"

\* thread p is leaving submit_results with 404 or 409
SubmitRejected(p) ==
    /\ pc[p] = "raise"
    /\ loc[p].op = "submit_results"
    /\ loc[p].code \in {404, 409}

\* C10: submit_results for a (name, version) without a scan raises 404, for a
\* scan that is FINISHED it raises 409, and a call that ends in one of the two
\* changes no scan, rule or association.
C10_SubmitRejections ==
    [][\A p \in Procs :
          /\ SubmitStarts(p) =>
                 LET k == loc'[p].pkg IN
                 /\ k \notin DOMAIN scans
                        => (pc'[p] = "raise" /\ loc'[p].code = 404)
                 /\ (k \in DOMAIN scans /\ scans[k].status = "FINISHED")
                        => (pc'[p] = "raise" /\ loc'[p].code = 409)
                 /\ pc'[p] = "raise" => UNCHANGED <<scans, rules>>
          /\ (SubmitRejected(p) /\ pc'[p] # pc[p]) => UNCHANGED <<scans, rules>>
      ]_vars

\* a submission for a FINISHED scan with matched rules is being refused with 409
C10_Witness ==
    \E p \in Procs :
        /\ SubmitRejected(p) /\ loc[p].code = 409
        /\ scans[loc[p].pkg].status = "FINISHED"
        /\ scans[loc[p].pkg].rules # {}

----------------------------------------------------------------------------
(* Resubmission, round trip *)

\* every other request thread is between requests
Sequential(p) == \A q \in Procs \ {p} : pc[q] = "idle"

\* thread p finishes the write transaction of submit_results in this step, and
\* nothing touched the row since p looked it up
SubmitWritesInSequence(p) ==
    /\ pc[p] = "sr_write"
    /\ pc'[p] # "sr_write"
    /\ Sequential(p)
    /\ loc[p].scan = scans[loc[p].pkg]

StatusName(status) ==
    CASE status = "QUEUED" -> "queued"
      [] status = "PENDING" -> "pending"
      [] status = "FINISHED" -> "finished"
      [] status = "FAILED" -> "failed"

\* Package.from_db
FromDb(k, row) ==
    [name |-> k[1], version |-> k[2], status |-> StatusName(row.status),
     score |-> row.score, inspector_url |-> row.inspector_url,
     rules |-> row.rules,
     queued_at |-> row.queued_at, queued_by |-> row.queued_by,
     pending_at |-> row.pending_at, pending_by |-> row.pending_by,
     finished_at |-> row.finished_at, finished_by |-> row.finished_by,
     reported_at |-> row.reported_at, reported_by |-> row.reported_by,
     commit_hash |-> row.commit_hash]

\* GET /package with name and, optionally, version (no since, no paging):
\* the matching rows, most recently queued first
LookupPackageInfo(rows, name, version) ==
    LET match == {k \in DOMAIN rows :
                     /\ k[1] = name
                     /\ version # None => k[2] = version[1]}
        order == CHOOSE s \in [1..Cardinality(match) -> match] :
                     /\ \A i, j \in DOMAIN s : i # j => s[i] # s[j]
                     /\ \A i, j \in DOMAIN s :
                            i < j => rows[s[i]].queued_at >= rows[s[j]].queued_at
    IN  [i \in DOMAIN order |-> FromDb(order[i], rows[order[i]])]

----------------------------------------------------------------------------
(* Queueing *)

\* C13 as stated: at most one scan row per (name, version), and queue_package
\* for a pair that already has a row fails with 409.
C13_Original ==
    /\ [](\A k \in Pkgs : nrows[k] <= 1)
    /\ [][\A p \in Procs, k \in Pkgs, found \in BOOLEAN :
             (QueuePackage(p, k, found) /\ k \in DOMAIN scans) =>
                 (pc'[p] = "raise" /\ loc'[p].code = 409)
         ]_vars

\* C13 amended: at most one scan row per (name, version); queue_package for a
\* pair that already has a row adds no row and fails, with 409 when the
\* upstream index knows the package and with 404 when it does not.
C13_Amended ==
    /\ [](\A k \in Pkgs : /\ nrows[k] <= 1
                          /\ nrows[k] = 1 <=> k \in DOMAIN scans)
    /\ [][\A p \in Procs, k \in Pkgs, found \in BOOLEAN :
             (QueuePackage(p, k, found) /\ k \in DOMAIN scans) =>
                 /\ pc'[p] = "raise"
                 /\ loc'[p].code = IF found THEN 409 ELSE 404
                 /\ UNCHANGED <<scans, nrows>>
         ]_vars

\* a batch lost the race for a pair against a queue_package of another client
\* (its commit failed), and a further queue_package for the pair is refused
C13_Witness ==
    \E p, q \in Procs :
        /\ pc[p] = "raise" /\ loc[p].op = "batch_queue_package"
        /\ pc[q] = "raise" /\ loc[q].op = "queue_package" /\ loc[q].code = 409
        /\ scans[loc[q].pkg].queued_by = q

----------------------------------------------------------------------------
(* Reporting *)

\* thread p returns from report_package after the POST and mark_reported
ReportReturns(p) == pc[p] = "rp_mark" /\ pc'[p] = "idle"

\* C15: when a report_package call that passed validation and POSTed returns,
\* the reported scan's row has reported_by = the caller and a reported_at, no
\* other field of it has changed and no other scan has changed.
C15_ReportMarksScan ==
    [][\A p \in Procs :
          ReportReturns(p) =>
              LET k == loc[p].pkg IN
              /\ scans'[k].reported_by = Some(p)
              /\ scans'[k].reported_at # None
              /\ scans'[k] = [scans[k] EXCEPT !.reported_by = scans'[k].reported_by,
                                              !.reported_at = scans'[k].reported_at]
              /\ \A j \in DOMAIN scans \ {k} : scans'[j] = scans[j]
      ]_vars

\* the scans of a name that are marked reported
ReportedVersions(name) ==
    {k \in DOMAIN scans : k[1] = name /\ scans[k].reported_at # None}

C17_Expected(k, body, on_pypi) ==
    LET named == {j \in DOMAIN scans : j[1] = k[1]} IN
    IF named = {} THEN 404
    ELSE IF ReportedVersions(k[1]) # {} THEN 409
    ELSE IF k \notin DOMAIN scans THEN 404
    ELSE IF body.inspector_url = None /\ scans[k].inspector_url = None THEN 400
    ELSE IF ~on_pypi THEN 404
    ELSE 200

----------------------------------------------------------------------------
(* Delivery *)

\* the lease of k can expire before the clock of the model stops
ExpiresInTime(k) ==
    /\ scans[k].pending_at # None
    /\ scans[k].pending_at[1] + JobTimeout < MaxTime

----------------------------------------------------------------------------
(* C19 *)

\* the buffered verdicts plus the one being submitted are for distinct
\* existing unfinished scans
DistinctUnfinished(results) ==
    /\ \A i, j \in DOMAIN results : i # j => results[i].pkg # results[j].pkg
    /\ \A i \in DOMAIN results :
           /\ results[i].pkg \in DOMAIN scans
           /\ scans[results[i].pkg].status \in {"QUEUED", "PENDING"}

\* C19: with the cache enabled with capacity CacheSize, the submit_result call
\* that brings the number of buffered verdicts for distinct existing unfinished
\* scans to CacheSize leaves the results buffer flushed and each of those
\* scans persisted with its verdict applied (FAILED for a failure verdict).
C19_PersistOnFull ==
    [][\A p \in Procs, k \in Pkgs, v \in Verdicts :
           LET results == Append(results_queue, [pkg |-> k, result |-> v]) IN
           ( /\ CacheSubmitResult(p, k, v)
             /\ Len(results) = CacheSize
             /\ DistinctUnfinished(results) )
           => /\ results_queue' = <<>>
              /\ \A i \in DOMAIN results :
                     scans'[results[i].pkg].status =
                         IF results[i].result.kind = "fail" THEN "FAILED" ELSE "FINISHED"]_vars

----------------------------------------------------------------------------
(* C20 *)

\* scan_queue as the refill inside get_job left it: the scan get_job has taken
\* from its head, if any, followed by what is still queued
Refilled(p) ==
    IF pc[p] = "cg_got" THEN <<loc[p].scan>> \o scan_queue ELSE scan_queue

\* get_job found scan_queue empty, and its refill ran to completion
RefillStep(p) ==
    /\ CacheGetJob(p)
    /\ scan_queue = <<>>
    /\ pc'[p] # "cg_blocked"

\* C20: after one refill, every scan of pending whose lease age exceeds
\* job_timeout is in scan_queue with status QUEUED and pending_at cleared and
\* is no longer in pending; every scan whose lease has not expired is still in
\* pending, unchanged, and is not in scan_queue.
C20_RefillRequeues ==
    [][\A p \in Procs :
           RefillStep(p) =>
               \A i \in DOMAIN pending :
                   LET s == pending[i] IN
                   IF now - s.pending_at[1] > JobTimeout
                   THEN /\ [pkg |-> s.pkg, status |-> "QUEUED", pending_at |-> None]
                               \in Range(Refilled(p)')
                        /\ \A t \in Range(pending') : t.pkg # s.pkg
                   ELSE /\ s \in Range(pending')
                        /\ \A t \in Range(Refilled(p)') : t.pkg # s.pkg]_vars

----------------------------------------------------------------------------
(* C21 *)

\* thread p's update_rules request returns normally in this step
RefreshSucceeds(p) == pc[p] = "ur_sync" /\ pc'[p] = "idle"

\* C21: after a successful update_rules the snapshot the request fetched has
\* been put in use and every rule name of it has a row in rules, whether or
\* not some of the names had rows before; with an unchanged repository a
\* repeated update_rules leaves the rules table as it is.
C21_RefreshSyncsRules ==
    /\ [][\A p \in Procs, hc, hz \in Outcomes :
             (UpdateRulesFetch(p, hc, hz, upstream) /\ pc'[p] = "ur_sync") =>
                 current' = loc'[p].fetched]_vars
    /\ [][\A p \in Procs :
             RefreshSucceeds(p) =>
                 /\ loc[p].fetched.rules \subseteq rules'
                 /\ (loc[p].fetched = loc[p].was => rules' = rules)]_vars

----------------------------------------------------------------------------
(* C22 *)

\* one of the two upstream requests of a fetch_rules call fails
FetchFails(hc, hz) == hc # "ok" \/ hz # "ok"

\* C22: if the head commit request or the archive download of a fetch_rules
\* call made by update_rules fails, update_rules propagates the failure and the
\* snapshot in use is still the one from before the request, commit hash and
\* rules unchanged.
C22_FetchFailureKeepsSnapshot ==
    /\ [][\A p \in Procs, hc, hz \in Outcomes :
             (UpdateRulesFetch(p, hc, hz, upstream) /\ FetchFails(hc, hz)) =>
                 /\ pc'[p] = "raise"
                 /\ current' = current]_vars
    /\ [][\A p \in Procs, hc, hz \in Outcomes :
             (UpdateRulesSync(p, hc, hz, upstream) /\ FetchFails(hc, hz)) =>
                 /\ pc'[p] = "raise"
                 /\ current' = loc[p].was]_vars

----------------------------------------------------------------------------
(* C23 *)

\* C23: every descriptor of a get_jobs response carries as hash the commit of
\* the snapshot that was in use when the request arrived, also when an
\* update_rules replaces the snapshot while the request is served; all
\* descriptors of one response carry the same hash.
C23_JobHashIsCurrent ==
    /\ [][\A p \in Procs, batch \in 0..MaxBatch :
             GetJobsSelect(p, batch) => loc'[p].state = current]_vars
    /\ [][\A p \in Procs :
             GetJobsUpdate(p) =>
                 \A out \in Returned(loc[p].sel) :
                     LET body == ResponseBody(p, out) IN
                     /\ Len(body) = Len(loc[p].sel)
                     /\ \A i \in DOMAIN body : body[i].hash = loc[p].state.rules_commit]_vars

\* a request that has leased a scan is about to answer after an update_rules
\* has replaced the snapshot it started with
C23_Witness ==
    \E p \in Procs :
        /\ pc[p] = "gj_locked"
        /\ loc[p].sel # <<>>
        /\ loc[p].state.rules_commit # current.rules_commit

----------------------------------------------------------------------------
(* C24 *)

\* query parameters of GET /package: since, name and version, each optional
Sinces == {None, Some(0), Some(1)}
Names == {None, Some("a"), Some("b")}
Versions == {None, Some("1"), Some("3")}

\* faulty variant: version together with since is let through
InvalidQuery_NoNameOnly(since, name, version) == name = None /\ since = None

\* (not nn_name and not nn_since) or (nn_version and nn_since)
InvalidQuery(since, name, version) ==
    \/ name = None /\ since = None
    \/ version # None /\ since # None

\* the query of lookup_package_info without paging: the rows that pass the
\* filters that were given, most recently queued first, through Package.from_db
LookupData(rows, since, name, version) ==
    LET match == {k \in DOMAIN rows :
                     /\ name # None => k[1] = name[1]
                     /\ version # None => k[2] = version[1]
                     /\ since # None => /\ rows[k].finished_at # None
                                        /\ rows[k].finished_at[1] >= since[1]}
        order == CHOOSE s \in [1..Cardinality(match) -> match] :
                     /\ \A i, j \in DOMAIN s : i # j => s[i] # s[j]
                     /\ \A i, j \in DOMAIN s :
                            i < j => rows[s[i]].queued_at >= rows[s[j]].queued_at
    IN  [i \in DOMAIN order |-> FromDb(order[i], rows[order[i]])]

\* GET /package
LookupRequest(p, since, name, version) ==
    /\ Accept(p)
    /\ LET parameters == [name |-> name, version |-> version, since |-> since] IN
       IF InvalidQuery(since, name, version)
       THEN /\ pc' = [pc EXCEPT ![p] = "raise"]
            /\ loc' = [loc EXCEPT ![p] = [op |-> "lookup_package_info", code |-> 400,
                                          parameters |-> parameters]]
       ELSE /\ pc' = [pc EXCEPT ![p] = "ret"]
            /\ loc' = [loc EXCEPT ![p] = [op |-> "lookup_package_info",
                                          parameters |-> parameters,
                                          data |-> LookupData(scans, since, name, version)]]
    /\ UNCHANGED <<held, scans, rules, now, handed, cachevars, nrows, rulevars>>

\* lookups over a catalogue filled beforehand
NextLookup ==
    \/ \E p \in Procs, since \in Sinces, name \in Names, version \in Versions :
           LookupRequest(p, since, name, version)
    \/ \E p \in Procs : Return(p)
    \/ \E p \in Procs : Raise(p)

SpecLookup == InitReport /\ [][NextLookup]_vars

\* the parameter combinations the lookup accepts: (name, version),
\* (name, since), (name) and (since)
AcceptedCombination(since, name, version) ==
    <<name # None, version # None, since # None>> \in
        {<<TRUE, TRUE, FALSE>>, <<TRUE, FALSE, TRUE>>,
         <<TRUE, FALSE, FALSE>>, <<FALSE, FALSE, TRUE>>}

\* C24: the lookup accepts exactly the parameter combinations (name, version),
\* (name, since), (name) and (since); every other combination of present and
\* absent name, version and since is rejected with 400 and returns no scans.
C24_LookupCombinations ==
    [][\A p \in Procs, since \in Sinces, name \in Names, version \in Versions :
           LookupRequest(p, since, name, version) =>
               IF AcceptedCombination(since, name, version)
               THEN /\ pc'[p] = "ret"
                    /\ "data" \in DOMAIN loc'[p]
               ELSE /\ pc'[p] = "raise"
                    /\ loc'[p].code = 400
                    /\ "data" \notin DOMAIN loc'[p]]_vars

\* a lookup with name, version and since over a catalogue that holds a
\* matching finished scan has been rejected with 400
C24_Witness ==
    \E p \in Procs :
        /\ pc[p] = "raise"
        /\ loc[p].op = "lookup_package_info"
        /\ loc[p].code = 400
        /\ loc[p].parameters.name # None
        /\ loc[p].parameters.version # None
        /\ loc[p].parameters.since # None
        /\ \E k \in DOMAIN scans :
               /\ <<k[1]>> = loc[p].parameters.name
               /\ <<k[2]>> = loc[p].parameters.version
               /\ scans[k].finished_at # None

----------------------------------------------------------------------------
(* C25 *)

\* C25: when the configured access token is the test value "test", fetch_rules
\* returns the empty snapshot with commit "test" and sends no upstream request.
C25_TestTokenSnapshot ==
    [][\A p \in Procs, hc, hz \in Outcomes :
           (UpdateRulesFetch(p, hc, hz, upstream) /\ token = "test") =>
               /\ pc'[p] = "ur_sync"
               /\ loc'[p].fetched = Rules("test", {})
               /\ loc'[p].requests = 0]_vars

----------------------------------------------------------------------------
(* C26 *)

\* k has been handed out and submit_result holds a verdict for it that is still
\* on its way to the database
Buffered(k) ==
    /\ handed[k] # <<>>
    /\ \E i \in DOMAIN results_queue : results_queue[i].pkg = k

\* C26: in cache mode, once submit_result has accepted a verdict for a scan,
\* get_job does not hand the scan out again; in particular a refill that runs
\* while the verdict is buffered and not yet flushed does not put the scan back
\* into scan_queue.
C26_NoHandoutAfterVerdict ==
    /\ [][\A p \in Procs :
             RefillStep(p) =>
                 \A s \in Range(Refilled(p)') : ~Buffered(s.pkg)]_vars
    /\ [][\A p \in Procs :
             CacheLease(p) => ~Buffered(loc[p].scan.pkg)]_vars

----------------------------------------------------------------------------
(* C27 *)

\* the QUEUED scans that thread p's select could have taken and did not
QueuedLeftBy(p, sel) ==
    {j \in DOMAIN scans :
        /\ scans[j].status = "QUEUED"
        /\ j \notin Range(sel)
        /\ j \notin LockedByOthers(p)}

----------------------------------------------------------------------------
(* C28 *)

\* (pending_at NULLS FIRST, queued_at): row r1 does not sort after row r2
SortsNotAfter(r1, r2) ==
    IF r1.pending_at = None
    THEN r2.pending_at = None => r1.queued_at <= r2.queued_at
    ELSE /\ r2.pending_at # None
         /\ \/ r1.pending_at[1] < r2.pending_at[1]
            \/ /\ r1.pending_at[1] = r2.pending_at[1]
               /\ r1.queued_at <= r2.queued_at

\* C28: within one get_jobs response the descriptors appear in
\* (pending_at NULLS FIRST, queued_at) order: of two never-leased scans
\* returned by the same call the one queued earlier appears first.
C28_ResponseOrder ==
    [][\A p \in Procs :
           GetJobsUpdate(p) =>
               \A out \in Returned(loc[p].sel) :
                   LET body == ResponseBody(p, out) IN
                   \A i, j \in DOMAIN body :
                       i < j => SortsNotAfter(scans[<<body[i].name, body[i].version>>],
                                              scans[<<body[j].name, body[j].version>>])]_vars

----------------------------------------------------------------------------
(* C29 *)

\* a thread inside requeue_timeouts, waiting in scan_queue.put for room in
\* the full queue, with _refill_lock held
BlockedOnPut(p) == pc[p] = "cg_blocked" /\ refill_lock = Some(p)

\* C29: no cache operation blocks on a queue while it holds the refill or
\* persist mutex, so get_job, with its refill and requeue of timed-out scans,
\* and submit_result always return, for any number of pending scans and
\* buffered results
C29_NoBlockingUnderLock == \A p \in Procs : ~BlockedOnPut(p)

----------------------------------------------------------------------------
(* C30 *)

\* submit_result has put the verdict v for k into results_queue and the scan
\* exists and is not FINISHED
Accepted(k, v) ==
    /\ k \in DOMAIN scans
    /\ scans[k].status # "FINISHED"
    /\ \E i \in DOMAIN results_queue : results_queue[i] = [pkg |-> k, result |-> v]

\* the row of k shows the verdict v as persist_all_results writes it
Applied(k, v) ==
    /\ k \in DOMAIN scans
    /\ IF v.kind = "fail"
       THEN /\ scans[k].status = "FAILED"
            /\ scans[k].fail_reason = Some(v.reason)
       ELSE /\ scans[k].status = "FINISHED"
            /\ scans[k].score = Some(v.score)
            /\ scans[k].commit_hash = Some(v.commit)
            /\ Matched(v) \subseteq scans[k].rules

\* C30: with the cache enabled, every verdict that submit_result accepted for
\* an existing scan that is not FINISHED is eventually applied to the database
\* (or the scan is FINISHED by another verdict meanwhile), even if no further
\* verdict is submitted afterwards
C30_AcceptedVerdictApplied ==
    \A k \in Pkgs, v \in Verdicts :
        Accepted(k, v) ~> (Applied(k, v) \/ (k \in DOMAIN scans /\ scans[k].status = "FINISHED"))

----------------------------------------------------------------------------
(* C31 *)

\* submit_result finds the buffer full and calls persist_all_results
FlushingSubmit(p, k, v) == CacheSubmitResult(p, k, v) /\ Len(results_queue) = CacheSize

\* the buffered success verdicts that persist_all_results has to apply: the
\* scan exists, is not FINISHED and no earlier verdict of the batch finishes it
ValidBuffered ==
    {i \in DOMAIN results_queue :
        /\ results_queue[i].result.kind = "success"
        /\ results_queue[i].pkg \in DOMAIN scans
        /\ scans[results_queue[i].pkg].status # "FINISHED"
        /\ \A j \in 1..(i - 1) :
               results_queue[j].pkg = results_queue[i].pkg =>
                   results_queue[j].result.kind # "success"}

\* C31: ingestion applies every valid success verdict and keeps Rule names
\* unique, also when two verdicts of one flushed batch name the same rule that
\* has no Rule row yet: the flush does not fail and no buffered verdict is
\* lost (every buffered success verdict that is to be applied leaves its scan
\* FINISHED with the verdict's rules attached and present in the Rule relation).
C31_FlushAppliesBatch ==
    [][\A p \in Procs, k \in Pkgs, v \in AnyVerdicts :
           FlushingSubmit(p, k, v) =>
               /\ pc'[p] # "raise"
               /\ \A i \in ValidBuffered :
                      /\ scans'[results_queue[i].pkg].status = "FINISHED"
                      /\ Matched(results_queue[i].result) \subseteq rules'
                      /\ Matched(results_queue[i].result)
                             \subseteq scans'[results_queue[i].pkg].rules]_vars

----------------------------------------------------------------------------
(* C32 *)

\* the scans a refill at time t can put into the empty scan_queue: a pending
\* scan older than the timeout, or a QUEUED row that is not pending
Refillable(t) ==
    {k \in DOMAIN handed : \E i \in DOMAIN pending :
         pending[i].pkg = k /\ t - pending[i].pending_at[1] > JobTimeout}
    \cup {k \in DOMAIN scans :
              scans[k].status = "QUEUED" /\ \A i \in DOMAIN pending : pending[i].pkg # k}

----------------------------------------------------------------------------
(* C33 *)

\* thread p's get_job finds scan_queue empty, refills it and goes on
RefillsIn(p) == CacheGetJob(p) /\ scan_queue = <<>> /\ pc'[p] \in {"cg_got", "ret"}

\* scan_queue as the refill of thread p left it, before get_job took its head
AfterRefill(p) ==
    IF pc'[p] = "cg_got" THEN <<loc'[p].scan>> \o scan_queue' ELSE <<>>

\* the pending scans whose lease is older than the timeout, in list order
Overdue ==
    LET Late(s) == now - s.pending_at[1] > JobTimeout
    IN  SelectSeq(pending, Late)

\* the QUEUED rows that are not in the pending list
QueuedNotPending ==
    {k \in DOMAIN scans :
        scans[k].status = "QUEUED" /\ \A i \in DOMAIN pending : pending[i].pkg # k}

----------------------------------------------------------------------------
(* C34 *)

\* thread p runs persist_all_results over a buffer that holds verdicts
Flushes(p) ==
    \/ \E k \in Pkgs, v \in AnyVerdicts : FlushingSubmit(p, k, v)
    \/ CachePersistAll(p) /\ results_queue # <<>>

\* the buffered verdicts that persist_all_results skips: the scan is unknown
\* or its row is FINISHED when the flush starts
Dropped ==
    {i \in DOMAIN results_queue :
        \/ results_queue[i].pkg \notin DOMAIN scans
        \/ scans[results_queue[i].pkg].status = "FINISHED"}

\* the buffered verdicts that decide the row of their scan: not dropped, and
\* the last of the batch for that scan, or its first success verdict
Deciding ==
    {i \in DOMAIN results_queue \ Dropped :
        LET SamePkg(j) == results_queue[j].pkg = results_queue[i].pkg
            Success(j) == results_queue[j].result.kind = "success"
        IN  /\ \A j \in 1..(i - 1) : SamePkg(j) => ~Success(j)
            /\ Success(i) \/ \A j \in (i + 1)..Len(results_queue) : ~SamePkg(j)}

\* the row shows the buffered verdict i
Shows(row, i) ==
    LET v == results_queue[i].result IN
    IF v.kind = "fail"
    THEN row.status = "FAILED" /\ row.fail_reason = Some(v.reason)
    ELSE /\ row.status = "FINISHED"
         /\ row.score = Some(v.score)
         /\ row.commit_hash = Some(v.commit)
         /\ row.inspector_url = v.inspector_url
         /\ Matched(v) \subseteq row.rules

\* C34: persist_all_results creates no row for a verdict whose (name, version)
\* is unknown and leaves a FINISHED row unchanged for a verdict that names it;
\* such verdicts are dropped and every other verdict of the batch is applied
\* in the same transaction.
C34_DropsOnlyInvalid ==
    [][\A p \in Procs :
           Flushes(p) =>
               /\ DOMAIN scans' = DOMAIN scans
               /\ \A k \in DOMAIN scans : scans[k].status = "FINISHED" => scans'[k] = scans[k]
               /\ Dropped # {} =>
                      \A i \in Deciding : Shows(scans'[results_queue[i].pkg], i)]_vars

----------------------------------------------------------------------------
(* C35 *)

\* the transaction of thread p failed: nothing of it is stored
RolledBack(p) == pc'[p] = "raise" /\ scans' = scans /\ rules' = rules

\* C35: the ingestion of a success verdict is atomic.  The step that creates
\* Rule rows for a verdict also leaves the verdict's scan FINISHED with those
\* rules attached, so no state shows the rows without the finished scan; a
\* transaction that fails stores neither new Rule rows nor the scan's status
\* and result fields.
C35_IngestionAtomic ==
    /\ [][\A p \in Procs :
             (SubmitWrite(p) /\ loc[p].result.kind = "success") =>
                 LET k == loc[p].pkg
                     v == loc[p].result
                 IN  \/ RolledBack(p)
                     \/ /\ pc'[p] = "idle"
                        /\ scans'[k].status = "FINISHED"
                        /\ Matched(v) \subseteq scans'[k].rules
                        /\ Matched(v) \subseteq rules'
                        /\ rules' \ rules \subseteq Matched(v)]_vars
    /\ [][\A p \in Procs :
             Flushes(p) =>
                 \/ RolledBack(p)
                 \/ /\ pc'[p] # "raise"
                    /\ \A k \in DOMAIN scans :
                           scans'[k].status = "FINISHED" => scans'[k].rules \subseteq rules'
                    /\ \A r \in rules' \ rules :
                           \E k \in DOMAIN scans :
                               /\ scans[k].status # "FINISHED"
                               /\ scans'[k].status = "FINISHED"
                               /\ r \in scans'[k].rules]_vars

\* a submission with a rule name listed twice has failed, and neither a Rule
\* row nor the scan's result is stored
C35_Witness ==
    \E p \in Procs :
        /\ pc[p] = "raise"
        /\ loc[p].op = "submit_results"
        /\ loc[p].code = 500
        /\ scans[loc[p].pkg].status = "QUEUED"
        /\ scans[loc[p].pkg].score = None
        /\ rules = {}

----------------------------------------------------------------------------
(* C36 *)

\* the rows as a get_jobs call of thread p with batch 1 leaves them when it
\* selects sel at time t
LeasedBy(p, sel, t) ==
    [k \in DOMAIN scans |->
        IF k \in Range(sel) THEN LeasedRow(scans[k], t, p) ELSE scans[k]]

\* C36: with the cache disabled, get_job has the same effect on the database
\* as get_jobs with batch 1: it selects the first eligible scan in
\* (pending_at NULLS FIRST, queued_at) order and stores status PENDING with
\* the new lease timestamp and the leaseholder; submit_result persists the
\* verdict before it returns and leaves results_queue empty.
C36_DisabledCacheIsDirect ==
    /\ [][\A p \in Procs, collected \in BOOLEAN :
             FetchJob(p, collected) =>
                 \E sel \in Selections(EligibleSet(now), 1) :
                     scans' = LeasedBy(p, sel, now)]_vars
    /\ [][\A p \in Procs, k \in Pkgs, v \in AnyVerdicts :
             SubmitResultDisabled(p, k, v) =>
                 /\ results_queue' = <<>>
                 /\ (pc'[p] # "raise" /\ k \in DOMAIN scans /\ scans[k].status # "FINISHED") =>
                        IF v.kind = "fail"
                        THEN /\ scans'[k].status = "FAILED"
                             /\ scans'[k].fail_reason = Some(v.reason)
                        ELSE /\ scans'[k].status = "FINISHED"
                             /\ scans'[k].score = Some(v.score)
                             /\ scans'[k].commit_hash = Some(v.commit)
                             /\ Matched(v) \subseteq scans'[k].rules]_vars

----------------------------------------------------------------------------
(* C37: connections of the lease operations *)

\* the threads that are inside a lease transaction
InLease == {p \in Procs : Leasing(p)}

\* C37: a lease operation holds one pooled connection while its transaction
\* is open and has given it back when it returns, also when no scan is
\* eligible, so that the connections that are out are those of the leases in
\* progress and a waiting caller gets one as soon as a lease returns; and when
\* at least as many scans are eligible as there are callers, each asking for
\* one scan, no caller receives an empty list.
C37_LeaseReleasesConnection ==
    /\ [](held = Cardinality(InLease))
    /\ [][\A p \in Procs, collected \in BOOLEAN :
             FetchJob(p, collected) => held' = held]_vars
    /\ [][\A p \in Procs :
             (/\ GetJobsSelect(p, 1)
              /\ \A q \in InLease : Len(loc[q].sel) <= 1
              /\ Cardinality(EligibleSet(now)) >= Cardinality(InLease) + 1)
             => loc'[p].sel # <<>>]_vars

----------------------------------------------------------------------------
(* C38: POST /batch/package *)

\* C38: batch_queue_package inserts one QUEUED scan for exactly the requested
\* (name, version) pairs that have no row and that the upstream index knows,
\* a repeated pair once; pairs that have a row or that the index does not
\* know are skipped without an error, and an empty request changes nothing.
C38_BatchQueuesRequested ==
    /\ [][\A p \in Procs, asked \in SUBSET Pkgs, ix \in Indexes :
             BatchDedup(p, asked, ix) =>
                 DOMAIN loc'[p].metadata =
                     {k \in asked : k \notin DOMAIN scans /\ ix[k] # None}]_vars
    /\ [][\A p \in Procs :
             BatchInsert(p) =>
                 /\ pc'[p] = "idle"
                 /\ scans' = [k \in DOMAIN loc[p].metadata \ DOMAIN scans |->
                                 NewScan(p, now)] @@ scans]_vars

----------------------------------------------------------------------------
(* C39: the snapshot and the repository *)

\* the snapshot of the repository in state repo
SnapshotAt(repo) == Rules(repo.commit, ParseZipfile(repo.files))

\* the rows of the published snapshot only: what the Refresh adds to rules are
\* names of the snapshot it put in use
SyncsPublished(p) == rules' \ rules \subseteq loc[p].fetched.rules

\* a materialized snapshot is the repository at its commit
AtItsCommit(snapshot) == \E repo \in Pushes : snapshot = SnapshotAt(repo)

\* C39: the rules of a snapshot that a fetch materializes are the contents of
\* the repository at the snapshot's commit hash, also when the head of the
\* repository advances between the commit request and the archive request of
\* that fetch; and the rule rows a refresh ensures are those of the snapshot
\* it put in use.
C39_SnapshotIsRepositoryAtCommit ==
    /\ [][\A p \in Deployers, hz \in Outcomes, head \in Pushes :
             (UpdateRulesFetch(p, "ok", hz, head) /\ pc'[p] = "ur_sync") =>
                 AtItsCommit(current')]_vars
    /\ [][\A p \in Deployers : RefreshSucceeds(p) => SyncsPublished(p)]_vars

----------------------------------------------------------------------------
(* C40: GET /stats *)

\* C40: get_stats answers with (ingested, average_scan_time, failed) in every
\* state of the database, also when no scan queued in the last 24 hours has
\* both pending_at and finished_at; ingested is the number of scans queued in
\* the last 24 hours and failed the number of those with status FAILED.
C40_StatsAlwaysAnswers ==
    [][\A p \in Procs :
          GetStats(p) =>
              /\ pc'[p] = "ret"
              /\ loc'[p].ingested = Cardinality(Recent(now))
              /\ loc'[p].failed =
                     Cardinality({k \in Recent(now) : scans[k].status = "FAILED"})]_vars

====
